---- MODULE Spec2Model ----
(***************************************************************************)
(* A model of the receipt pipeline: the filename classifier of cluster.py, *)
(* the receipt parser and CSV emitter of store_6352_parseToCSV.py, and the *)
(* cluster and transform orchestrators that drive them over an S3 bucket.  *)
(*                                                                         *)
(* Strings are sequences of one-character strings, so that the regular     *)
(* expressions, splits and substring tests of the source are computed      *)
(* character by character.                                                 *)
(***************************************************************************)
EXTENDS Integers, Sequences, FiniteSets, TLC

VARIABLES
    filename,           \* cluster.py: the filename handed to the classifier
    extraction_result,  \* cluster.py: what extract_cafe_id_and_date returned
    content,            \* parseToCSV: the text of the receipt being parsed
    parsed_data,        \* parseToCSV: what parse_stm_content returned, once it has
    emitted,            \* parseToCSV: the call of write_csv_row and its effect, once made
    bucket,             \* the S3 bucket: object key -> object content
    local,              \* TEMP_DIR: file name -> file content
    listing,            \* the keys the paginator yields, in listing order
    idx,                \* the position of the orchestrator's loop in the listing
    stats,              \* the orchestrator's stats dictionary
    run,                \* "running", "returned", or "raised" (an exception left the loop)
    runs,               \* how many times the stage has been started
    faults,             \* how many operations of the environment have failed so far
    cafe_filter,        \* parseToCSV: CAFE_FILTER, None or a cafe id
    log,                \* history: what was done for, and counted of, each item
    stage,              \* which script runs: "ingest", "cluster" or "transform"
    exit_code           \* the code main passed to sys.exit, None until it exits

classifyVars == <<filename, extraction_result>>

parseVars == <<content, parsed_data, emitted>>

stageVars == <<bucket, local, listing, idx, stats, run, runs, faults, cafe_filter, log,
               stage, exit_code>>

vars == <<filename, extraction_result, content, parsed_data, emitted,
          bucket, local, listing, idx, stats, run, runs, faults, cafe_filter, log,
          stage, exit_code>>

(***************************************************************************)
(* Bounds of the model.                                                    *)
(***************************************************************************)
\* the number of tokens a drawn filename stem is built from
MaxTokens == 5

\* the number of lines of a drawn receipt body
MaxLines == 4

\* the number of keys under the source prefix when a stage starts
MaxKeys == 3

\* the number of operations of the environment (S3 calls, unlinks) that fail
MaxFaults == 2

\* the number of times the transform stage is run over the same bucket
MaxRuns == 2

(***************************************************************************)
(* Python values.                                                          *)
(***************************************************************************)
\* Python's None, and a present value, as a sequence of length 0 or 1
None == <<>>

Some(v) == <<v>>

\* a variable that has not been assigned yet
Unset == <<"unset">>

Digits == {"0", "1", "2", "3", "4", "5", "6", "7", "8", "9"}

Min(S) == CHOOSE x \in S : \A y \in S : x <= y

RECURSIVE Flatten(_)
\* the concatenation of a sequence of strings
Flatten(ss) ==
    IF Len(ss) = 0 THEN <<>> ELSE Head(ss) \o Flatten(Tail(ss))

(***************************************************************************)
(* Regular-expression and string primitives used by cluster.py.            *)
(***************************************************************************)
\* \d{n} matches at position i of s
DigitRunAt(s, i, n) ==
    /\ i >= 1
    /\ i + n - 1 <= Len(s)
    /\ \A k \in i..(i + n - 1) : s[k] \in Digits

\* re.search(r'(\d{n})', s): the leftmost start of n consecutive digits, 0 if none
SearchDigits(s, n) ==
    LET P == {i \in 1..Len(s) : DigitRunAt(s, i, n)}
    IN  IF P = {} THEN 0 ELSE Min(P)

\* `$` at position j of s: the end, or just before a final newline
EndAnchor(s, j) ==
    \/ j = Len(s) + 1
    \/ j = Len(s) /\ s[j] = "\n"

DotStm == <<".", "s", "t", "m">>

\* re.search(r'(\d{4})\.stm$', s): the start of the group, 0 if no match
SearchCafeSuffix(s) ==
    LET P == {i \in 1..Len(s) :
                /\ DigitRunAt(s, i, 4)
                /\ i + 7 <= Len(s)
                /\ SubSeq(s, i + 4, i + 7) = DotStm
                /\ EndAnchor(s, i + 8)}
    IN  IF P = {} THEN 0 ELSE Min(P)

RECURSIVE Split(_, _)
\* str.split(sep) for a one-character separator
Split(s, sep) ==
    LET P == {i \in 1..Len(s) : s[i] = sep}
    IN  IF P = {} THEN <<s>>
        ELSE <<SubSeq(s, 1, Min(P) - 1)>> \o Split(SubSeq(s, Min(P) + 1, Len(s)), sep)

\* a plausible slip: the validation accepts any run of digits, r'^\d+$'
ValidDate_any_digits(date) ==
    /\ Len(date) >= 1
    /\ \A k \in 1..Len(date) : date[k] \in Digits \/ (k = Len(date) /\ k > 1 /\ date[k] = "\n")

\* re.match(r'^\d{8}$', date)
ValidDate(date) == DigitRunAt(date, 1, 8) /\ EndAnchor(date, 9)

(***************************************************************************)
(* cluster.py: extract_cafe_id_and_date                                    *)
(***************************************************************************)
\* the filename of the documented scenario
StoreExample ==
    <<"s","t","o","r","e","-","2","0","2","4","1","1","0","2","_","5","5","1","2",".","s","t","m">>

\* a plausible slip: the 4-digit run is searched anywhere first
cafe_id_match_anywhere(fn) ==
    LET m == SearchDigits(fn, 4)
    IN  IF m # 0 THEN Some(SubSeq(fn, m, m + 3)) ELSE None

\* a plausible slip: the fallback accepts a run of 1 to 4 digits, \d{1,4}
cafe_id_match_short_run(fn) ==
    LET m1 == SearchCafeSuffix(fn)
        m2 == SearchDigits(fn, 1)
    IN  IF m1 # 0 THEN Some(SubSeq(fn, m1, m1 + 3))
        ELSE IF m2 # 0
             THEN Some(SubSeq(fn, m2,
                      Min({m2 + 3} \cup {j \in m2..Len(fn) : j = Len(fn) \/ fn[j + 1] \notin Digits})))
        ELSE None

\* lines 41-51: the cafe id, or None
cafe_id_match(fn) ==
    LET m1 == SearchCafeSuffix(fn)
        m2 == SearchDigits(fn, 4)
    IN  IF m1 # 0 THEN Some(SubSeq(fn, m1, m1 + 3))
        ELSE IF m2 # 0 THEN Some(SubSeq(fn, m2, m2 + 3))
        ELSE None

\* lines 53-71: the date candidate, or None
date_candidate(fn) ==
    LET m == SearchDigits(fn, 8)
        parts == Split(fn, "_")
        date_part == Split(parts[1], "-")
    IN  IF m # 0 THEN Some(SubSeq(fn, m, m + 7))
        ELSE IF Len(parts) > 0
             THEN IF Len(date_part) > 2 THEN Some(date_part[3]) ELSE None
             ELSE None

\* lines 28-77: <<cafe_id, date>>, or None
extract_cafe_id_and_date(fn) ==
    LET cafe == cafe_id_match(fn)
        cand == date_candidate(fn)
    IN  IF cafe = None THEN None
        ELSE IF cand = None THEN None
        ELSE IF ~ValidDate(cand[1]) THEN None
        ELSE <<cafe[1], cand[1]>>

(***************************************************************************)
(* Regular-expression and string primitives used by the receipt parser.    *)
(***************************************************************************)
\* \s, and the characters str.strip() removes
Whitespace == {" ", "\t", "\n", "\r", "\f"}

\* the characters of [\d.]
NumChars == Digits \cup {"."}

UpperLetters ==
    <<"A","B","C","D","E","F","G","H","I","J","K","L","M",
      "N","O","P","Q","R","S","T","U","V","W","X","Y","Z">>

LowerLetters ==
    <<"a","b","c","d","e","f","g","h","i","j","k","l","m",
      "n","o","p","q","r","s","t","u","v","w","x","y","z">>

\* the lower-case form of one character (str.lower, re.IGNORECASE)
LowerChar(c) ==
    IF c \in {UpperLetters[k] : k \in 1..26}
    THEN LowerLetters[CHOOSE k \in 1..26 : UpperLetters[k] = c]
    ELSE c

Lower(s) == [k \in 1..Len(s) |-> LowerChar(s[k])]

\* the lower-case literal lit matches s at position i, ignoring case
MatchLit(s, i, lit) ==
    /\ i >= 1
    /\ i + Len(lit) - 1 <= Len(s)
    /\ \A k \in 1..Len(lit) : LowerChar(s[i + k - 1]) = lit[k]

RECURSIVE SkipWhile(_, _, _)
\* a greedy C*: the first position at or after i whose character is not of C
SkipWhile(s, i, C) ==
    IF i > Len(s) \/ s[i] \notin C THEN i ELSE SkipWhile(s, i + 1, C)

\* str.strip()
Strip(s) ==
    LET keep == {k \in 1..Len(s) : s[k] \notin Whitespace}
    IN  IF keep = {} THEN <<>>
        ELSE SubSeq(s, Min(keep), CHOOSE k \in keep : \A j \in keep : j <= k)

\* ORDER_NO_PATTERN = r"Order No:\s*(\d+)", IGNORECASE; search: group 1, or None
ORDER_NO_PATTERN_search(s) ==
    LET lit == <<"o","r","d","e","r"," ","n","o",":">>
        P == {i \in 1..Len(s) :
                /\ MatchLit(s, i, lit)
                /\ DigitRunAt(s, SkipWhile(s, i + 9, Whitespace), 1)}
    IN  IF P = {} THEN None
        ELSE LET j == SkipWhile(s, Min(P) + 9, Whitespace)
             IN  Some(SubSeq(s, j, SkipWhile(s, j, Digits) - 1))

\* TIME_PATTERN = r"(\d{2}:\d{2}:\d{2})"; search: group 1, or None
TIME_PATTERN_search(s) ==
    LET P == {i \in 1..(Len(s) - 7) :
                /\ DigitRunAt(s, i, 2) /\ s[i + 2] = ":"
                /\ DigitRunAt(s, i + 3, 2) /\ s[i + 5] = ":"
                /\ DigitRunAt(s, i + 6, 2)}
    IN  IF P = {} THEN None ELSE Some(SubSeq(s, Min(P), Min(P) + 7))

\* TOTAL_AMOUNT_PATTERN = r"Total amount:\s*([\d.]+)\s*EUR", IGNORECASE
TotalAt(s, i) ==
    LET lit == <<"t","o","t","a","l"," ","a","m","o","u","n","t",":">>
        j == SkipWhile(s, i + 13, Whitespace)
        k == SkipWhile(s, j, NumChars)
    IN  IF /\ MatchLit(s, i, lit)
           /\ k > j
           /\ MatchLit(s, SkipWhile(s, k, Whitespace), <<"e","u","r">>)
        THEN Some(SubSeq(s, j, k - 1))
        ELSE None

\* TOTAL_AMOUNT_PATTERN.search: group 1, or None
TOTAL_AMOUNT_PATTERN_search(s) ==
    LET P == {i \in 1..Len(s) : TotalAt(s, i) # None}
    IN  IF P = {} THEN None ELSE TotalAt(s, Min(P))

\* the rest of ITEM_PATTERN after group 1,
\*   \s*//\s*([\d.]+)\s*EUR\s*//\s*VAT:\s*([\d.]+%)
\* matched at position e: groups 2 and 3 and the end of the match, or None
ItemTailAt(s, e) ==
    LET a == SkipWhile(s, e, Whitespace)
        b == SkipWhile(s, a + 2, Whitespace)
        c == SkipWhile(s, b, NumChars)
        d == SkipWhile(s, c, Whitespace)
        f == SkipWhile(s, d + 3, Whitespace)
        g == SkipWhile(s, f + 2, Whitespace)
        h == SkipWhile(s, g + 4, Whitespace)
        m == SkipWhile(s, h, NumChars)
    IN  IF /\ MatchLit(s, a, <<"/","/">>)
           /\ c > b
           /\ MatchLit(s, d, <<"e","u","r">>)
           /\ MatchLit(s, f, <<"/","/">>)
           /\ MatchLit(s, g, <<"v","a","t",":">>)
           /\ m > h
           /\ MatchLit(s, m, <<"%">>)
        THEN Some([price |-> SubSeq(s, b, c - 1), vat |-> SubSeq(s, h, m), end |-> m + 1])
        ELSE None

RECURSIVE LineEnd(_, _)
\* the position of the first newline at or after i, or Len(s) + 1: "." matches
\* up to there
LineEnd(s, i) ==
    IF i > Len(s) \/ s[i] = "\n" THEN i ELSE LineEnd(s, i + 1)

\* the end of group 1 of ITEM_PATTERN, (\d+\s*-\s*.+?), when its dash is at
\* position k0 - 1: the position e after the lazy text, or 0 when the rest of
\* the pattern matches nowhere.  The greedy \s* after the dash is tried
\* longest first, and for each length the lazy .+? shortest first; "."
\* matches no newline.
ItemGroupEnd(s, k0) ==
    LET kmax == SkipWhile(s, k0, Whitespace)
        first == {e \in (kmax + 1)..LineEnd(s, kmax) : ItemTailAt(s, e) # None}
        given == {e \in (k0 + 1)..kmax : s[e - 1] # "\n" /\ ItemTailAt(s, e) # None}
    IN  IF first # {} THEN Min(first)
        ELSE IF given # {} THEN CHOOSE x \in given : \A y \in given : y <= x
        ELSE 0

\* the match of ITEM_PATTERN that starts at i and whose group 1 ends before e
ItemMatch(s, i, e, tail) ==
    Some([groups |-> <<SubSeq(s, i, e - 1), tail[1].price, tail[1].vat>>,
          end |-> tail[1].end])

\* ITEM_PATTERN matched at position i, with group 1 ending before e (0: no match)
ItemUpTo(s, i, e) ==
    IF e = 0 THEN None ELSE ItemMatch(s, i, e, ItemTailAt(s, e))

\* ITEM_PATTERN matched at position i: its groups and its end, or None
ItemAt(s, i) ==
    IF /\ DigitRunAt(s, i, 1)
       /\ MatchLit(s, SkipWhile(s, SkipWhile(s, i, Digits), Whitespace), <<"-">>)
    THEN ItemUpTo(s, i,
            ItemGroupEnd(s, SkipWhile(s, SkipWhile(s, i, Digits), Whitespace) + 1))
    ELSE None

RECURSIVE FindItemsFrom(_, _)
RECURSIVE FindItemsAfter(_, _, _)
\* ITEM_PATTERN.findall from position pos: the groups of the non-overlapping
\* matches, leftmost first
FindItemsFrom(s, pos) ==
    IF pos > Len(s) THEN <<>> ELSE FindItemsAfter(s, pos, ItemAt(s, pos))

\* m is the match at pos: the scan goes on after it, or at pos + 1
FindItemsAfter(s, pos, m) ==
    IF m = None THEN FindItemsFrom(s, pos + 1)
    ELSE <<m[1].groups>> \o FindItemsFrom(s, m[1].end)

ITEM_PATTERN_findall(s) == FindItemsFrom(s, 1)

(***************************************************************************)
(* store_6352_parseToCSV.py: STMParser                                     *)
(***************************************************************************)
CSV_HEADERS ==
    << <<"c","a","f","e","_","i","d">>, <<"d","a","t","e">>, <<"t","i","m","e">>,
       <<"o","r","d","e","r","_","n","o">>, <<"i","t","e","m">>,
       <<"p","r","i","c","e">>, <<"v","a","t">>,
       <<"t","o","t","a","l","_","a","m","o","u","n","t">> >>

\* a plausible slip: the item matches collected last first
parse_stm_content_items_reversed(text) ==
    [order_no     |-> ORDER_NO_PATTERN_search(text),
     time         |-> TIME_PATTERN_search(text),
     total_amount |-> TOTAL_AMOUNT_PATTERN_search(text),
     items        |-> [k \in 1..Len(ITEM_PATTERN_findall(text)) |->
                         ITEM_PATTERN_findall(text)[Len(ITEM_PATTERN_findall(text)) + 1 - k]]]

\* lines 42-72
parse_stm_content(text) ==
    [order_no     |-> ORDER_NO_PATTERN_search(text),
     time         |-> TIME_PATTERN_search(text),
     total_amount |-> TOTAL_AMOUNT_PATTERN_search(text),
     items        |-> ITEM_PATTERN_findall(text)]

\* Python's `x or ''` for an optional string
OrEmpty(x) == IF x = None THEN <<>> ELSE x[1]

\* a plausible slip: the time and order_no columns in the other order
ItemRow_columns_swapped(cafe_id, date, data, item) ==
    <<cafe_id, date, OrEmpty(data.order_no), OrEmpty(data.time),
      Strip(item[1]), Strip(item[2]), Strip(item[3]), OrEmpty(data.total_amount)>>

\* lines 94-109: the row written for one item
ItemRow(cafe_id, date, data, item) ==
    <<cafe_id, date, OrEmpty(data.time), OrEmpty(data.order_no),
      Strip(item[1]), Strip(item[2]), Strip(item[3]), OrEmpty(data.total_amount)>>

\* a plausible slip: the count returned is that of all rows of the writer
write_csv_row_counts_all(rows, cafe_id, date, data) ==
    [rows         |-> rows \o [k \in 1..Len(data.items) |->
                                  ItemRow(cafe_id, date, data, data.items[k])],
     rows_written |-> Len(rows) + Len(data.items)]

\* lines 75-111: the rows of the writer afterwards, and the count returned
write_csv_row(rows, cafe_id, date, data) ==
    [rows         |-> rows \o [k \in 1..Len(data.items) |->
                                  ItemRow(cafe_id, date, data, data.items[k])],
     rows_written |-> Len(data.items)]

(***************************************************************************)
(* The filenames the classifier is applied to: a stem of up to MaxTokens   *)
(* tokens followed by ".stm" (the orchestrator passes only such names).    *)
(***************************************************************************)
FilenameTokens ==
    { <<"s","t","o","r","e">>, <<"-">>, <<"_">>, <<"7">>,
      <<"2","0","2","4","1","1","0","2">>,
      <<"1","9","9","9","0","1","0","1">>,
      <<"5","5","1","2">> }

FilenameStems ==
    UNION { [1..n -> FilenameTokens] : n \in 0..MaxTokens }

\* the classifier given a drawn filename
PickFilename ==
    /\ filename = Unset
    /\ \E stem \in FilenameStems : filename' = Flatten(stem) \o DotStm
    /\ UNCHANGED <<extraction_result, parseVars, stageVars>>

\* organize_file, line 99: the classifier is applied to the filename
Classify ==
    /\ filename # Unset
    /\ extraction_result = Unset
    /\ extraction_result' = extract_cafe_id_and_date(filename)
    /\ UNCHANGED <<filename, parseVars, stageVars>>

ClassifyIdle == filename = Unset /\ extraction_result = Unset

ParseIdle == content = Unset /\ parsed_data = None /\ emitted = None

\* no stage is running
StageIdle ==
    /\ bucket = <<>> /\ local = <<>> /\ listing = <<>> /\ idx = 0 /\ stats = <<>>
    /\ run = "idle" /\ runs = 0 /\ faults = 0 /\ cafe_filter = None /\ log = <<>>
    /\ stage = "idle" /\ exit_code = None

ClassifyInit == ClassifyIdle /\ ParseIdle /\ StageIdle

ClassifyNext == PickFilename \/ Classify

SpecClassify == ClassifyInit /\ [][ClassifyNext]_vars

(***************************************************************************)
(* The receipt bodies the parser is applied to: up to MaxLines lines, each *)
(* one of the lines below, joined by newlines.                             *)
(***************************************************************************)
OrderLine == <<"O","r","d","e","r"," ","N","o",":"," ","1","2","3","4","5">>

TimeLine == <<"1","4",":","3","2",":","1","0">>

CoffeeLine ==
    <<"1"," ","-"," ","C","o","f","f","e","e"," ","/","/"," ","2",".","5","0"," ",
      "E","U","R"," ","/","/"," ","V","A","T",":"," ","9","%">>

TotalLine ==
    <<"T","o","t","a","l"," ","a","m","o","u","n","t",":"," ","2",".","5","0"," ","E","U","R">>

\* an item line in other case and spacing
TeaLine ==
    <<"2","-"," "," ","T","e","a"," "," ","/","/","1",".","2"," ","e","u","r","/","/",
      "v","a","t",":","2","1","%">>

\* a line no pattern matches
ThanksLine == <<"T","h","a","n","k","s","!">>

ReceiptLines == {OrderLine, TimeLine, CoffeeLine, TotalLine, TeaLine, ThanksLine, <<>>}

RECURSIVE JoinLines(_)
\* "\n".join(lines)
JoinLines(lines) ==
    IF Len(lines) = 0 THEN <<>>
    ELSE IF Len(lines) = 1 THEN lines[1]
    ELSE lines[1] \o <<"\n">> \o JoinLines(Tail(lines))

ReceiptBodies ==
    { JoinLines(ls) : ls \in UNION { [1..n -> ReceiptLines] : n \in 0..MaxLines } }

\* the cafe ids and dates a caller supplies to write_csv_row
CallerCafeIds == { <<"5","5","1","2">>, <<>> }

CallerDates == { <<"2","0","2","4","1","1","0","2">>, <<>> }

\* process_stm_file, lines 145-146: the receipt text is read
PickContent ==
    /\ content = Unset
    /\ \E body \in ReceiptBodies : content' = body
    /\ UNCHANGED <<parsed_data, emitted, classifyVars, stageVars>>

\* process_stm_file, line 148
Parse ==
    /\ content # Unset
    /\ parsed_data = None
    /\ parsed_data' = Some(parse_stm_content(content))
    /\ UNCHANGED <<content, emitted, classifyVars, stageVars>>

\* process_stm_file, line 162: the rows are written through a writer that has
\* written nothing yet, or only the header
Emit ==
    /\ parsed_data # None
    /\ emitted = None
    /\ \E cafe_id \in CallerCafeIds, date \in CallerDates,
          before \in {<<>>, <<CSV_HEADERS>>} :
          LET r == write_csv_row(before, cafe_id, date, parsed_data[1])
          IN  emitted' = Some([cafe_id |-> cafe_id, date |-> date, before |-> before,
                               rows |-> r.rows, rows_written |-> r.rows_written])
    /\ UNCHANGED <<content, parsed_data, classifyVars, stageVars>>

ParseInit == ClassifyIdle /\ ParseIdle /\ StageIdle

ParseNext == PickContent \/ Parse \/ Emit

SpecParse == ParseInit /\ [][ParseNext]_vars

(***************************************************************************)
(* String and collection helpers of the orchestrators.                     *)
(***************************************************************************)
\* str.endswith
EndsWith(s, suf) ==
    Len(s) >= Len(suf) /\ SubSeq(s, Len(s) - Len(suf) + 1, Len(s)) = suf

\* `sub in s` for a non-empty sub
Contains(s, sub) ==
    \E i \in 1..(Len(s) - Len(sub) + 1) : \A k \in 1..Len(sub) : s[i + k - 1] = sub[k]

\* os.path.basename of a key: what follows the last "/"
Basename(key) == LET parts == Split(key, "/") IN parts[Len(parts)]

\* a mapping without the entry of k
Remove(f, k) == [x \in DOMAIN f \ {k} |-> f[x]]

\* a mapping with the entry of k set to v
Put(f, k, v) == [x \in DOMAIN f \cup {k} |-> IF x = k THEN v ELSE f[x]]

RECURSIVE SelectIdx(_, _)
\* the subsequence of seq at the indices I, in order
SelectIdx(seq, I) ==
    IF I = {} THEN <<>>
    ELSE <<seq[Min(I)]>> \o SelectIdx(seq, I \ {Min(I)})

\* the listings of at most n of the keys of seq, in the order of seq
SubListings(seq, n) ==
    { SelectIdx(seq, I) : I \in {J \in SUBSET (1..Len(seq)) : Cardinality(J) <= n} }

(***************************************************************************)
(* cluster.py: organize_file and cluster_receipts.  Lines 159, 170-171 and *)
(* 194 of the file are indented off their block; they are read at the      *)
(* depth their block requires.                                             *)
(***************************************************************************)
\* line 23
SOURCE_FOLDER == <<"s","t","m","_","f","i","l","e","s">>

\* line 24
DESTINATION_FOLDER ==
    <<"c","l","u","s","t","e","r","e","d","_","r","e","c","e","i","p","t","s">>

\* line 106
organized_s3_key(cafe_id, date, fn) ==
    DESTINATION_FOLDER \o <<"/">> \o cafe_id \o <<"/">> \o date \o <<"/">> \o fn

\* the text of an exception, which the source formats into its messages
ErrorText == <<"e">>

\* what the environment does during one call of organize_file: head_object
\* answers ("ok": 200 or a 404 ClientError, as the bucket has it), fails with
\* another ClientError, or raises something that is no ClientError (a
\* BotoCoreError such as a lost connection); download, upload and unlink succeed or not
ClusterEnvs ==
    [head : {"ok", "ClientError", "Error"},
     download : BOOLEAN, upload : BOOLEAN, unlink : BOOLEAN]

\* lines 130-136: the local file, if there, is unlinked, errors swallowed
ClusterCleanup(l, fn, env) ==
    IF fn \in DOMAIN l /\ env.unlink THEN Remove(l, fn) ELSE l

\* the number of unlinks that fail in ClusterCleanup
ClusterCleanupFaults(l, fn, env) ==
    IF fn \in DOMAIN l /\ ~env.unlink THEN 1 ELSE 0

\* what organize_file returns or that it raised, the bucket and TEMP_DIR
\* afterwards, and what it did on the way
OrganizeResult(raised, success, message, b, l, head, downloaded, uploaded, nfaults) ==
    [raised |-> raised, success |-> success, message |-> message,
     bucket |-> b, local |-> l, head |-> head,
     downloaded |-> downloaded, uploaded |-> uploaded, faults |-> nfaults]

\* lines 80-136
organize_file(b, l, s3_key, fn, env) ==
    LET ex == extract_cafe_id_and_date(fn)
        dest == organized_s3_key(ex[1], ex[2], fn)
        got == Put(l, fn, b[s3_key])
        failed == <<"E","r","r","o","r"," ","p","r","o","c","e","s","s","i","n","g"," ">>
                      \o fn \o <<":"," ">> \o ErrorText
    IN  IF ex = None
        THEN OrganizeResult(FALSE, FALSE,
                 <<"C","o","u","l","d"," ","n","o","t"," ","e","x","t","r","a","c","t",
                   " ","c","a","f","e"," ","I","D"," ","a","n","d"," ","d","a","t","e",
                   " ","f","r","o","m"," ">> \o fn,
                 b, l, "none", FALSE, FALSE, 0)
        ELSE IF env.head = "Error"
        THEN OrganizeResult(TRUE, FALSE, <<>>, b, l, "Error", FALSE, FALSE, 1)
        ELSE IF env.head = "ClientError"
        THEN OrganizeResult(FALSE, FALSE,
                 <<"E","r","r","o","r"," ","c","h","e","c","k","i","n","g"," ",
                   "f","i","l","e"," ","e","x","i","s","t","e","n","c","e",":"," ">>
                     \o ErrorText,
                 b, l, "ClientError", FALSE, FALSE, 1)
        ELSE IF dest \in DOMAIN b
        THEN OrganizeResult(FALSE, TRUE,
                 <<"F","i","l","e"," ","a","l","r","e","a","d","y"," ",
                   "e","x","i","s","t","s"," ","a","t"," ">> \o dest
                     \o <<" ","(","s","k","i","p","p","e","d",")">>,
                 b, l, "found", FALSE, FALSE, 0)
        ELSE IF ~env.download
        THEN OrganizeResult(FALSE, FALSE, failed, b, ClusterCleanup(l, fn, env),
                 "absent", FALSE, FALSE, 1 + ClusterCleanupFaults(l, fn, env))
        ELSE IF ~env.upload
        THEN OrganizeResult(FALSE, FALSE, failed, b, ClusterCleanup(got, fn, env),
                 "absent", TRUE, FALSE, 1 + ClusterCleanupFaults(got, fn, env))
        ELSE OrganizeResult(FALSE, TRUE,
                 <<"O","r","g","a","n","i","z","e","d"," ">> \o fn
                     \o <<" ","->"," ">> \o dest,
                 Put(b, dest, got[fn]), ClusterCleanup(got, fn, env),
                 "absent", TRUE, TRUE, ClusterCleanupFaults(got, fn, env))

\* lines 199-214: the counter a returned (success, message) is counted in
ClusterCounter(success, message) ==
    IF success
    THEN IF Contains(Lower(message), <<"a","l","r","e","a","d","y"," ","e","x","i","s","t","s">>)
         THEN "skipped"
         ELSE "organized"
    ELSE "failed"

\* the keys under SOURCE_FOLDER a run may find, in listing (byte) order
SourceKeys ==
    << <<"s","t","m","_","f","i","l","e","s","/","A","l","r","e","a","d","y"," ","E","x","i","s","t","s",
         "-","2","0","2","4","1","1","0","2","_","5","5","1","2",".","s","t","m">>,
       <<"s","t","m","_","f","i","l","e","s","/","n","o","t","e","s",".","t","x","t">>,
       <<"s","t","m","_","f","i","l","e","s","/","r","e","c","e","i","p","t",".","s","t","m">>,
       <<"s","t","m","_","f","i","l","e","s","/","s","t","o","r","e","-","2","0","2","4","1","1","0","2",
         "_","5","5","1","2",".","s","t","m">>,
       <<"s","t","m","_","f","i","l","e","s","/","s","t","o","r","e","-","2","0","2","4","1","1","0","3",
         "_","7","0","0","1",".","s","t","m">> >>

\* the destination keys of the keys of a listing that classify
DestinationKeys(ls) ==
    { organized_s3_key(extract_cafe_id_and_date(Basename(ls[k]))[1],
                       extract_cafe_id_and_date(Basename(ls[k]))[2], Basename(ls[k])) :
        k \in {j \in 1..Len(ls) : extract_cafe_id_and_date(Basename(ls[j])) # None} }

\* the content of the source object at a key (any text)
SourceObject(key) == SubSeq(key, 11, 13)

\* cluster_receipts is called: the bucket holds some source objects and some
\* objects organized by an earlier run
ClusterInit ==
    /\ ClassifyIdle /\ ParseIdle
    /\ \E ls \in SubListings(SourceKeys, MaxKeys) :
          \E pre \in SUBSET DestinationKeys(ls) :
              /\ listing = ls
              /\ bucket = [k \in {ls[j] : j \in 1..Len(ls)} \cup pre |->
                              IF k \in pre THEN <<"o","l","d">> ELSE SourceObject(k)]
    /\ local = <<>>
    /\ idx = 1
    /\ stats = [total_files |-> 0, organized |-> 0, skipped |-> 0, failed |-> 0,
                cafes |-> {}, dates |-> {}]
    /\ run = "starting"
    /\ runs = 1
    /\ faults = 0
    /\ cafe_filter = None
    /\ log = <<>>
    /\ stage = "cluster"
    /\ exit_code = None

\* lines 158-173: the connection test; a failure raises out of cluster_receipts
ClusterConnect ==
    /\ run = "starting"
    /\ \/ run' = "running" /\ faults' = faults
       \/ faults < MaxFaults /\ run' = "raised" /\ faults' = faults + 1
    /\ UNCHANGED <<bucket, local, listing, idx, stats, runs, cafe_filter, log, stage, exit_code, classifyVars, parseVars>>

\* lines 186-216: one iteration of the loop over the listing
ClusterIteration ==
    /\ run = "running"
    /\ idx <= Len(listing)
    /\ LET s3_key == listing[idx]
           fn == Basename(s3_key)
       IN  IF ~EndsWith(s3_key, DotStm)
           THEN /\ idx' = idx + 1
                /\ UNCHANGED <<bucket, local, stats, run, faults, log>>
           ELSE \E env \in ClusterEnvs :
                  LET r == organize_file(bucket, local, s3_key, fn, env)
                      counter == IF r.raised THEN "none"
                                 ELSE ClusterCounter(r.success, r.message)
                      ex == extract_cafe_id_and_date(fn)
                  IN  /\ faults + r.faults <= MaxFaults
                      /\ faults' = faults + r.faults
                      /\ bucket' = r.bucket
                      /\ local' = r.local
                      /\ run' = IF r.raised THEN "raised" ELSE run
                      /\ idx' = IF r.raised THEN idx ELSE idx + 1
                      /\ stats' =
                            [stats EXCEPT
                               !.total_files = @ + 1,
                               !.organized = IF counter = "organized" THEN @ + 1 ELSE @,
                               !.skipped = IF counter = "skipped" THEN @ + 1 ELSE @,
                               !.failed = IF counter = "failed" THEN @ + 1 ELSE @,
                               !.cafes = IF counter = "organized" /\ ex # None
                                         THEN @ \cup {ex[1]} ELSE @,
                               !.dates = IF counter = "organized" /\ ex # None
                                         THEN @ \cup {ex[2]} ELSE @]
                      /\ log' = Append(log,
                            [key |-> s3_key, head |-> r.head,
                             downloaded |-> r.downloaded, uploaded |-> r.uploaded,
                             counter |-> counter])
    /\ UNCHANGED <<listing, runs, cafe_filter, stage, exit_code, classifyVars, parseVars>>

\* lines 218-220: the loop is over; the sets become their sizes
ClusterReturn ==
    /\ run = "running"
    /\ idx > Len(listing)
    /\ run' = "returned"
    /\ stats' = [stats EXCEPT !.cafes = Cardinality(@), !.dates = Cardinality(@)]
    /\ UNCHANGED <<bucket, local, listing, idx, runs, faults, cafe_filter, log, stage, exit_code, classifyVars, parseVars>>

\* main, lines 233-258: an exception out of cluster_receipts is caught and
\* main exits with 1; otherwise with 1 if stats['failed'] > 0 and 0 if not
ClusterExit ==
    /\ run \in {"returned", "raised"}
    /\ exit_code = None
    /\ exit_code' = Some(IF run = "returned" /\ stats.failed = 0 THEN 0 ELSE 1)
    /\ UNCHANGED <<bucket, local, listing, idx, stats, run, runs, faults, cafe_filter, log,
                   stage, classifyVars, parseVars>>

ClusterNext == ClusterConnect \/ ClusterIteration \/ ClusterReturn \/ ClusterExit

SpecCluster == ClusterInit /\ [][ClusterNext]_vars

(***************************************************************************)
(* store_6352_parseToCSV.py: process_stm_file and process_all_receipts.    *)
(* Line 318 of the file is indented off its block; it is read at the depth *)
(* its block requires.  A CSV file is the sequence of the rows written to  *)
(* it: it has length 0 exactly when nothing was written.                   *)
(***************************************************************************)
\* line 24
S3_SOURCE_FOLDER ==
    <<"c","l","u","s","t","e","r","e","d","_","r","e","c","e","i","p","t","s">>

\* line 25
S3_DESTINATION_FOLDER ==
    <<"p","r","o","c","e","s","s","e","d","_","r","e","c","e","i","p","t","s">>

RECURSIVE Replace(_, _, _)
\* str.replace(old, new): every occurrence, leftmost first
Replace(s, old, new) ==
    LET P == {i \in 1..(Len(s) - Len(old) + 1) : SubSeq(s, i, i + Len(old) - 1) = old}
    IN  IF P = {} THEN s
        ELSE SubSeq(s, 1, Min(P) - 1) \o new
                 \o Replace(SubSeq(s, Min(P) + Len(old), Len(s)), old, new)

\* line 137
csv_filename(fn) == Replace(fn, DotStm, <<".","c","s","v">>)

\* line 165
s3_destination_key(cafe_id, date, fn) ==
    S3_DESTINATION_FOLDER \o <<"/","c","a","f","e","_">> \o cafe_id
        \o <<"/","d","a","t","e","_">> \o date \o <<"/">> \o csv_filename(fn)

\* a plausible slip: the header is written on every emission
header_always(file_size) == TRUE

\* line 159: whether the header is written
header_needed(file_size) == file_size = 0

\* what the environment does during one call of process_stm_file: whether the
\* download, the upload, the two unlinks of lines 169-172 and the two of
\* lines 179-184 succeed
TransformEnvs ==
    [download : BOOLEAN, upload : BOOLEAN, unlink_stm : BOOLEAN, unlink_csv : BOOLEAN,
     retry_stm : BOOLEAN, retry_csv : BOOLEAN]

\* lines 153-166, when nothing fails: old is the local CSV before the
\* emission (empty when there is none), w what write_csv_row made of it
process_stm_file_written(b, l1, csv, old, w, cafe_id, date, fn) ==
    [csv |-> csv, written |-> Put(l1, csv, w.rows),
     uploaded |-> Put(b, s3_destination_key(cafe_id, date, fn), w.rows),
     file_size |-> Len(old),
     header |-> Len(w.rows) > Len(old) /\ w.rows[Len(old) + 1] = CSV_HEADERS,
     rows_written |-> w.rows_written]

\* lines 147-162: the receipt is parsed, the header is written when the local
\* CSV is new or empty, and the rows are appended
process_stm_file_emit(b, l1, csv, old, cafe_id, date, fn) ==
    process_stm_file_written(b, l1, csv, old,
        write_csv_row(old \o (IF header_needed(Len(old)) THEN <<CSV_HEADERS>> ELSE <<>>),
                      cafe_id, date, parse_stm_content(l1[fn])),
        cafe_id, date, fn)

\* lines 153-155: the local CSV the emission appends to
process_stm_file_open(b, l1, csv, cafe_id, date, fn) ==
    process_stm_file_emit(b, l1, csv, IF csv \in DOMAIN l1 THEN l1[csv] ELSE <<>>,
                          cafe_id, date, fn)

\* lines 136-166, when nothing fails: the name of the CSV, TEMP_DIR after the
\* emission, the bucket after the upload, the size of the local CSV before
\* the emission, whether the emission began with the header, and the count
\* write_csv_row returned
process_stm_file_steps(b, l, s3_key, cafe_id, date, fn) ==
    process_stm_file_open(b, Put(l, fn, b[s3_key]), csv_filename(fn), cafe_id, date, fn)

\* lines 176-185: the handler of any exception; unlink errors are swallowed.
\* idle names the operations of env that were never attempted.
ProcessFailed(b, l, fn, csv, env, transferred, size_before, header, idle) ==
    [success |-> FALSE, rows_written |-> 0, bucket |-> b,
     local |-> [k \in DOMAIN l \ ((IF env.retry_stm THEN {fn} ELSE {})
                                   \cup (IF env.retry_csv THEN {csv} ELSE {})) |-> l[k]],
     transferred |-> transferred, size_before |-> size_before, header |-> header,
     faults |-> 1 + (IF fn \in DOMAIN l /\ ~env.retry_stm THEN 1 ELSE 0)
                  + (IF csv \in DOMAIN l /\ ~env.retry_csv THEN 1 ELSE 0),
     idle |-> idle \cup (IF fn \in DOMAIN l THEN {} ELSE {"retry_stm"})
                   \cup (IF csv \in DOMAIN l THEN {} ELSE {"retry_csv"})]

\* lines 140-185: which of the steps take effect under env.  The result holds
\* what process_stm_file returns, the bucket and TEMP_DIR afterwards, and what
\* it did on the way: whether the CSV was uploaded, the size of the local CSV
\* before the emission (-1: none), whether the header was written, how many
\* operations failed, and which operations were never attempted.
process_stm_file_outcome(b, l, fn, s, env) ==
    IF ~env.download
    THEN ProcessFailed(b, l, fn, s.csv, env, FALSE, -1, FALSE,
                       {"upload", "unlink_stm", "unlink_csv"})
    ELSE IF ~env.upload
    THEN ProcessFailed(b, s.written, fn, s.csv, env, FALSE, s.file_size, s.header,
                       {"unlink_stm", "unlink_csv"})
    ELSE IF ~env.unlink_stm
    THEN ProcessFailed(s.uploaded, s.written, fn, s.csv, env, TRUE, s.file_size, s.header,
                       {"unlink_csv"})
    ELSE IF ~env.unlink_csv
    THEN ProcessFailed(s.uploaded, Remove(s.written, fn), fn, s.csv, env,
                       TRUE, s.file_size, s.header, {})
    ELSE [success |-> TRUE, rows_written |-> s.rows_written, bucket |-> s.uploaded,
          local |-> Remove(Remove(s.written, fn), s.csv),
          transferred |-> TRUE, size_before |-> s.file_size, header |-> s.header,
          faults |-> 0, idle |-> {"retry_stm", "retry_csv"}]

\* lines 114-185
process_stm_file(b, l, s3_key, cafe_id, date, fn, env) ==
    process_stm_file_outcome(b, l, fn,
        process_stm_file_steps(b, l, s3_key, cafe_id, date, fn), env)

\* the keys under S3_SOURCE_FOLDER a run may find, in listing (byte) order: the
\* key the cluster stage writes for "store-20241102_5512.stm", three keys one
\* level deeper, a key that is no receipt, and a key right under the folder
ClusteredKeys ==
    << organized_s3_key(<<"5","5","1","2">>, <<"2","0","2","4","1","1","0","2">>, StoreExample),
       <<"c","l","u","s","t","e","r","e","d","_","r","e","c","e","i","p","t","s","/","e","u","/",
         "5","5","1","2","/","2","0","2","4","1","1","0","2","/","a",".","s","t","m">>,
       <<"c","l","u","s","t","e","r","e","d","_","r","e","c","e","i","p","t","s","/","e","u","/",
         "5","5","1","2","/","2","0","2","4","1","1","0","2","/","b",".","s","t","m">>,
       <<"c","l","u","s","t","e","r","e","d","_","r","e","c","e","i","p","t","s","/","e","u","/",
         "7","0","0","1","/","2","0","2","4","1","1","0","2","/","a",".","s","t","m">>,
       <<"c","l","u","s","t","e","r","e","d","_","r","e","c","e","i","p","t","s","/",
         "n","o","t","e","s",".","t","x","t">>,
       <<"c","l","u","s","t","e","r","e","d","_","r","e","c","e","i","p","t","s","/",
         "x",".","s","t","m">> >>

\* the receipt stored at a key: one item, two items, or none
ReceiptAt(key) ==
    IF key = ClusteredKeys[3] THEN JoinLines(<<TimeLine, CoffeeLine, TeaLine>>)
    ELSE IF key = ClusteredKeys[4] THEN JoinLines(<<OrderLine, ThanksLine>>)
    ELSE JoinLines(<<OrderLine, TimeLine, CoffeeLine, TotalLine>>)

\* the stats dictionary of lines 204-210
TransformStats ==
    [total_files |-> 0, processed |-> 0, failed |-> 0, total_rows |-> 0, cafes |-> {}]

\* main is started: the bucket holds some receipts under S3_SOURCE_FOLDER;
\* TEMP_DIR is empty or holds an empty "a.csv"
TransformInit ==
    /\ ClassifyIdle /\ ParseIdle
    /\ \E ls \in SubListings(ClusteredKeys, MaxKeys) :
          /\ listing = ls
          /\ bucket = [k \in {ls[j] : j \in 1..Len(ls)} |-> ReceiptAt(k)]
    /\ local \in {<<>>, [k \in {<<"a",".","c","s","v">>} |-> <<>>]}
    /\ cafe_filter \in {None, Some(<<"5","5","1","2">>)}
    /\ idx = 1
    /\ stats = TransformStats
    /\ run = "starting"
    /\ runs = 1
    /\ faults = 0
    /\ log = <<>>
    /\ stage = "transform"
    /\ exit_code = None

\* main, lines 281-299: the connection test; a failure ends the process
TransformConnect ==
    /\ run = "starting"
    /\ \/ run' = "running" /\ faults' = faults
       \/ faults < MaxFaults /\ run' = "fatal" /\ faults' = faults + 1
    /\ UNCHANGED <<bucket, local, listing, idx, stats, runs, cafe_filter, log, stage, exit_code,
                   classifyVars, parseVars>>

\* lines 234-248: how the key splits: "short" (fewer than 4 parts), "unpack"
\* (the 5-name unpacking raises ValueError) or "ok"
KeyShape(s3_key) ==
    LET parts == Split(s3_key, "/")
    IN  IF Len(parts) < 4 THEN "short"
        ELSE IF Len(parts) # 5 THEN "unpack"
        ELSE "ok"

\* lines 219-263: one iteration of the loop over the listing.  The split key
\* and the steps of process_stm_file are computed once per iteration; only an
\* operation that is attempted can fail (r.idle), and at most MaxFaults
\* operations fail in a behaviour.
TransformIteration ==
    /\ run = "running"
    /\ idx <= Len(listing)
    /\ LET s3_key == listing[idx]
       IN  IF \/ ~EndsWith(s3_key, DotStm)
              \/ /\ cafe_filter # None
                 /\ cafe_filter[1] # <<>>
                 /\ ~Contains(s3_key, <<"/">> \o cafe_filter[1] \o <<"/">>)
           THEN /\ idx' = idx + 1
                /\ UNCHANGED <<bucket, local, stats, faults, log>>
           ELSE IF KeyShape(s3_key) # "ok"
           THEN /\ idx' = idx + 1
                /\ stats' = [stats EXCEPT !.total_files = @ + 1, !.failed = @ + 1]
                /\ log' = Append(log,
                      [run |-> runs, key |-> s3_key, shape |-> KeyShape(s3_key),
                       transferred |-> FALSE, size_before |-> -1, header |-> FALSE,
                       rows_written |-> 0, counter |-> "failed"])
                /\ UNCHANGED <<bucket, local, faults>>
           ELSE \E parts \in {Split(s3_key, "/")} :
                \E steps \in {process_stm_file_steps(bucket, local, s3_key,
                                                      parts[3], parts[4], parts[5])} :
                  \E env \in TransformEnvs :
                    \E r \in {process_stm_file_outcome(bucket, local, parts[5], steps, env)} :
                          /\ \A op \in r.idle : env[op]
                          /\ faults + r.faults <= MaxFaults
                          /\ faults' = faults + r.faults
                          /\ bucket' = r.bucket
                          /\ local' = r.local
                          /\ idx' = idx + 1
                          /\ stats' =
                                [stats EXCEPT
                                   !.total_files = @ + 1,
                                   !.cafes = @ \cup {parts[3]},
                                   !.processed = IF r.success THEN @ + 1 ELSE @,
                                   !.total_rows = IF r.success THEN @ + r.rows_written ELSE @,
                                   !.failed = IF r.success THEN @ ELSE @ + 1]
                          /\ log' = Append(log,
                                [run |-> runs, key |-> s3_key, shape |-> "ok",
                                 transferred |-> r.transferred,
                                 size_before |-> r.size_before, header |-> r.header,
                                 rows_written |-> r.rows_written,
                                 counter |-> IF r.success THEN "processed" ELSE "failed"])
    /\ UNCHANGED <<listing, run, runs, cafe_filter, stage, exit_code, classifyVars, parseVars>>

\* lines 265-266: the loop is over
TransformReturn ==
    /\ run = "running"
    /\ idx > Len(listing)
    /\ run' = "returned"
    /\ stats' = [stats EXCEPT !.cafes = Cardinality(@)]
    /\ UNCHANGED <<bucket, local, listing, idx, runs, faults, cafe_filter, log, stage, exit_code,
                   classifyVars, parseVars>>

\* main is started again on the same bucket and TEMP_DIR (the source objects
\* are unchanged, so the listing is the same)
TransformRerun ==
    /\ run = "returned"
    /\ exit_code # None
    /\ runs < MaxRuns
    /\ runs' = runs + 1
    /\ run' = "starting"
    /\ exit_code' = None
    /\ idx' = 1
    /\ stats' = TransformStats
    /\ UNCHANGED <<bucket, local, listing, faults, cafe_filter, log, stage,
                   classifyVars, parseVars>>

\* main, lines 296-326: sys.exit(1) after a failed connection test,
\* otherwise 1 if stats['failed'] > 0 and 0 if not.  Line 318 is indented off
\* its block; it is read as the else of the if of line 315.
TransformExit ==
    /\ run \in {"returned", "fatal"}
    /\ exit_code = None
    /\ exit_code' = Some(IF run = "returned" /\ stats.failed = 0 THEN 0 ELSE 1)
    /\ UNCHANGED <<bucket, local, listing, idx, stats, run, runs, faults, cafe_filter, log,
                   stage, classifyVars, parseVars>>

TransformNext ==
    \/ TransformConnect
    \/ TransformIteration
    \/ TransformReturn
    \/ TransformExit
    \/ TransformRerun

SpecTransform == TransformInit /\ [][TransformNext]_vars

(***************************************************************************)
(* unzip.py: extract_and_upload_to_s3 and main                             *)
(***************************************************************************)
\* line 135: the default of S3_FOLDER
S3_FOLDER == <<"s","t","m","_","f","i","l","e","s">>

\* line 83
ingest_s3_key(fn) == S3_FOLDER \o <<"/">> \o fn

\* the entries of the archive, in infolist order
ArchiveEntries == [k \in 1..Len(SourceKeys) |-> Basename(SourceKeys[k])]

RECURSIVE stm_files(_)
\* line 70: the entries whose name ends with '.stm'
stm_files(entries) ==
    IF entries = <<>> THEN <<>>
    ELSE (IF EndsWith(Head(entries), DotStm) THEN <<Head(entries)>> ELSE <<>>)
             \o stm_files(Tail(entries))

\* what the environment does for one entry: whether zip_ref.extract, the
\* upload, the unlink of line 94 and the unlink of line 103 succeed
IngestEnvs == [extract : BOOLEAN, upload : BOOLEAN, unlink : BOOLEAN, retry : BOOLEAN]

\* lines 77-105, for the entry fn: the bucket and the temp directory
\* afterwards, whether the object was uploaded, the counters incremented in
\* order, how many operations failed and which were never attempted.  The
\* unlink of line 94 follows successful_uploads += 1 inside the try block.
upload_entry(b, l, fn, env) ==
    LET got == Put(l, fn, SourceObject(ingest_s3_key(fn)))
        kept(f) == IF fn \in DOMAIN f /\ env.retry THEN Remove(f, fn) ELSE f
        miss(f) == IF fn \in DOMAIN f /\ ~env.retry THEN 1 ELSE 0
    IN  IF ~env.extract
        THEN [bucket |-> b, local |-> kept(l), uploaded |-> FALSE,
              counters |-> <<"failed">>, faults |-> 1 + miss(l),
              idle |-> {"upload", "unlink"} \cup (IF fn \in DOMAIN l THEN {} ELSE {"retry"})]
        ELSE IF ~env.upload
        THEN [bucket |-> b, local |-> kept(got), uploaded |-> FALSE,
              counters |-> <<"failed">>, faults |-> 1 + miss(got), idle |-> {"unlink"}]
        ELSE IF ~env.unlink
        THEN [bucket |-> Put(b, ingest_s3_key(fn), got[fn]), local |-> kept(got),
              uploaded |-> TRUE, counters |-> <<"successful", "failed">>,
              faults |-> 1 + miss(got), idle |-> {}]
        ELSE [bucket |-> Put(b, ingest_s3_key(fn), got[fn]), local |-> Remove(got, fn),
              uploaded |-> TRUE, counters |-> <<"successful">>, faults |-> 0,
              idle |-> {"retry"}]

\* main calls extract_and_upload_to_s3 on an archive holding some entries
IngestInit ==
    /\ ClassifyIdle /\ ParseIdle
    /\ listing \in SubListings(ArchiveEntries, MaxKeys)
    /\ bucket = <<>>
    /\ local = <<>>
    /\ idx = 1
    /\ stats = [successful_uploads |-> 0, failed_uploads |-> 0]
    /\ run = "starting"
    /\ runs = 1
    /\ faults = 0
    /\ cafe_filter = None
    /\ log = <<>>
    /\ stage = "ingest"
    /\ exit_code = None

\* lines 40-71: the archive is found, the bucket answers and the archive
\* opens, or one of them raises out of extract_and_upload_to_s3 (lines 42,
\* 52-58, 108, 110)
IngestConnect ==
    /\ run = "starting"
    /\ \/ run' = "running" /\ faults' = faults
       \/ faults < MaxFaults /\ run' = "raised" /\ faults' = faults + 1
    /\ UNCHANGED <<bucket, local, listing, idx, stats, runs, cafe_filter, log,
                   stage, exit_code, classifyVars, parseVars>>

\* lines 76-105: one iteration of the loop over stm_files
IngestIteration ==
    /\ run = "running"
    /\ idx <= Len(stm_files(listing))
    /\ \E fn \in {stm_files(listing)[idx]} :
         \E env \in IngestEnvs :
           \E r \in {upload_entry(bucket, local, fn, env)} :
              /\ \A op \in r.idle : env[op]
              /\ faults + r.faults <= MaxFaults
              /\ faults' = faults + r.faults
              /\ bucket' = r.bucket
              /\ local' = r.local
              /\ idx' = idx + 1
              /\ stats' =
                    [successful_uploads |->
                        stats.successful_uploads
                          + Cardinality({k \in 1..Len(r.counters) : r.counters[k] = "successful"}),
                     failed_uploads |->
                        stats.failed_uploads
                          + Cardinality({k \in 1..Len(r.counters) : r.counters[k] = "failed"})]
              /\ log' = Append(log, [key |-> fn, uploaded |-> r.uploaded,
                                     counters |-> r.counters])
    /\ UNCHANGED <<listing, run, runs, cafe_filter, stage, exit_code, classifyVars, parseVars>>

\* lines 112-127: the temp directory is emptied (a failure is only warned
\* about) and the two counts are returned
IngestReturn ==
    /\ run = "running"
    /\ idx > Len(stm_files(listing))
    /\ run' = "returned"
    /\ \/ local' = <<>> /\ faults' = faults
       \/ local # <<>> /\ faults < MaxFaults /\ local' = local /\ faults' = faults + 1
    /\ UNCHANGED <<bucket, listing, idx, stats, runs, cafe_filter, log,
                   stage, exit_code, classifyVars, parseVars>>

\* a plausible slip: main exits with 0 whenever the function returned
IngestExit_ignores_failed ==
    /\ run \in {"returned", "raised"}
    /\ exit_code = None
    /\ exit_code' = Some(IF run = "returned" THEN 0 ELSE 1)
    /\ UNCHANGED <<bucket, local, listing, idx, stats, run, runs, faults, cafe_filter, log,
                   stage, classifyVars, parseVars>>

\* main, lines 144-162: sys.exit(0 if failed == 0 else 1), and 1 when
\* extract_and_upload_to_s3 raised
IngestExit ==
    /\ run \in {"returned", "raised"}
    /\ exit_code = None
    /\ exit_code' = Some(IF run = "returned" /\ stats.failed_uploads = 0 THEN 0 ELSE 1)
    /\ UNCHANGED <<bucket, local, listing, idx, stats, run, runs, faults, cafe_filter, log,
                   stage, classifyVars, parseVars>>

IngestNext == IngestConnect \/ IngestIteration \/ IngestReturn \/ IngestExit

SpecIngest == IngestInit /\ [][IngestNext]_vars

(***************************************************************************)
(* The three scripts: any one of them is run.                              *)
(***************************************************************************)
MainInit == IngestInit \/ ClusterInit \/ TransformInit

MainNext ==
    \/ stage = "ingest" /\ IngestNext
    \/ stage = "cluster" /\ ClusterNext
    \/ stage = "transform" /\ TransformNext

SpecMain == MainInit /\ [][MainNext]_vars

(***************************************************************************)
(* C1                                                                      *)
(***************************************************************************)
\* the positions i of a "-" that starts "-<8 digits>_", with the 4 digits
\* before ".stm" lying after that "_": fn is <prefix>-<8 digits>_<middle><4 digits>.stm
FormPositions(fn) ==
    {i \in 1..Len(fn) :
        /\ fn[i] = "-"
        /\ DigitRunAt(fn, i + 1, 8)
        /\ i + 9 <= Len(fn)
        /\ fn[i + 9] = "_"
        /\ Len(fn) - 7 >= i + 10
        /\ DigitRunAt(fn, Len(fn) - 7, 4)
        /\ SubSeq(fn, Len(fn) - 3, Len(fn)) = DotStm}

Classified == filename # Unset /\ extraction_result # Unset

\* C1 as stated: for every filename <prefix>-<8 digits>_<middle><4 digits>.stm the
\* classifier returns the 4 digits before ".stm" and the 8 digits embedded
\* between that "-" and "_", whatever the prefix and the middle are.
C1_AsStated ==
    Classified =>
        \A i \in FormPositions(filename) :
            extraction_result =
                <<SubSeq(filename, Len(filename) - 7, Len(filename) - 4),
                  SubSeq(filename, i + 1, i + 8)>>

\* C1 amended: for every such filename the classifier succeeds, the cafe id is
\* the 4 digits before ".stm", and the date is the leftmost run of 8 digits of
\* the filename; that is the embedded date whenever the prefix holds no run of
\* 8 consecutive digits.  "store-20241102_5512.stm" yields ("5512", "20241102").
C1_FirstDigitRun ==
    (Classified /\ FormPositions(filename) # {}) =>
        /\ extraction_result # None
        /\ extraction_result[1] = SubSeq(filename, Len(filename) - 7, Len(filename) - 4)
        /\ \E p \in 1..Len(filename) :
              /\ DigitRunAt(filename, p, 8)
              /\ \A q \in 1..(p - 1) : ~DigitRunAt(filename, q, 8)
              /\ extraction_result[2] = SubSeq(filename, p, p + 7)
        /\ \A i \in FormPositions(filename) :
              (\A q \in 1..(i - 1) : ~DigitRunAt(filename, q, 8))
                  => extraction_result[2] = SubSeq(filename, i + 1, i + 8)
        /\ (filename = StoreExample =>
              extraction_result = <<<<"5","5","1","2">>, <<"2","0","2","4","1","1","0","2">>>>)

\* a filename of the form whose prefix and middle both hold digits, classified
C1_Witness ==
    /\ Classified
    /\ \E i \in FormPositions(filename) :
          /\ \E q \in 1..(i - 1) : filename[q] \in Digits
          /\ Len(filename) - 7 > i + 10
          /\ extraction_result =
                <<SubSeq(filename, Len(filename) - 7, Len(filename) - 4),
                  SubSeq(filename, i + 1, i + 8)>>

(***************************************************************************)
(* C3                                                                      *)
(***************************************************************************)
\* the receipt bodies of the claim: the order line, the timestamp, the item
\* line and the total line, one per line, in any order
C3Bodies ==
    { JoinLines(ls) : ls \in { f \in [1..4 -> {OrderLine, TimeLine, CoffeeLine, TotalLine}] :
                                  \A a, b \in 1..4 : a # b => f[a] # f[b] } }

\* the rows write_csv_row added to the writer
NewRows == SubSeq(emitted[1].rows, Len(emitted[1].before) + 1, Len(emitted[1].rows))

\* the record and the single row of the claim, with the given item description
C3Outcome(description) ==
    /\ parsed_data[1].order_no = Some(<<"1","2","3","4","5">>)
    /\ parsed_data[1].time = Some(TimeLine)
    /\ parsed_data[1].total_amount = Some(<<"2",".","5","0">>)
    /\ Len(parsed_data[1].items) = 1
    /\ Strip(parsed_data[1].items[1][1]) = description
    /\ parsed_data[1].items[1][2] = <<"2",".","5","0">>
    /\ parsed_data[1].items[1][3] = <<"9","%">>
    /\ emitted[1].rows_written = 1
    /\ NewRows = << <<emitted[1].cafe_id, emitted[1].date, TimeLine,
                      <<"1","2","3","4","5">>, description,
                      <<"2",".","5","0">>, <<"9","%">>, <<"2",".","5","0">>>> >>

C10_OneRowPerItem ==
    emitted # None =>
        LET e == emitted[1]
            d == parsed_data[1]
            Field(x) == IF x = None THEN <<>> ELSE x[1]
        IN  /\ e.rows_written = Len(d.items)
            /\ Len(e.rows) = Len(e.before) + Len(d.items)
            /\ SubSeq(e.rows, 1, Len(e.before)) = e.before
            /\ \A k \in 1..Len(d.items) :
                  LET row == e.rows[Len(e.before) + k]
                  IN  /\ Len(row) = 8
                      /\ row[1] = e.cafe_id
                      /\ row[2] = e.date
                      /\ row[3] = Field(d.time)
                      /\ row[4] = Field(d.order_no)
                      /\ row[5] = Strip(d.items[k][1])
                      /\ row[6] = Strip(d.items[k][2])
                      /\ row[7] = Strip(d.items[k][3])
                      /\ row[8] = Field(d.total_amount)

\* a receipt with two different items and no order number, emitted after a header
C10_Witness ==
    /\ emitted # None
    /\ emitted[1].before = <<CSV_HEADERS>>
    /\ parsed_data[1].order_no = None
    /\ parsed_data[1].time # None
    /\ Len(parsed_data[1].items) = 2
    /\ parsed_data[1].items[1] # parsed_data[1].items[2]
    /\ emitted[1].rows_written = 2
    /\ NewRows[1][4] = <<>>
    /\ NewRows[1][5] # NewRows[2][5]

\* a receipt without items: nothing is written and 0 is returned
C10_WitnessEmpty ==
    /\ emitted # None
    /\ parsed_data[1].items = <<>>
    /\ parsed_data[1].time # None
    /\ emitted[1].rows_written = 0
    /\ emitted[1].rows = emitted[1].before

(***************************************************************************)
(* C7                                                                      *)
(***************************************************************************)
\* C7 as stated: in the cluster stage every .stm file whose classification
\* fails (head "none") or whose destination check fails for a reason other
\* than the object being absent is counted in 'failed', and no item stops
\* the run: only the connection test, before the first item, can raise.
C7_AsStated ==
    /\ \A k \in 1..Len(log) :
          log[k].head \in {"none", "ClientError", "Error"} => log[k].counter = "failed"
    /\ run = "raised" => log = <<>>

\* what the code does guarantee: a failed classification and a ClientError of
\* head_object other than 404 are counted in 'failed' and the loop goes on
C7_ClientErrorCounted ==
    \A k \in 1..Len(log) :
        log[k].head \in {"none", "ClientError"} =>
            /\ log[k].counter = "failed"
            /\ idx > k \/ Len(log) > k \/ run # "raised"

(***************************************************************************)
(* C8                                                                      *)
(***************************************************************************)
\* C8 as stated: in the cluster stage a file is counted 'skipped' exactly when
\* head_object found its destination key, and then nothing was downloaded or
\* uploaded for it; a file that was downloaded and uploaded is counted
\* 'organized'.
C8_AsStated ==
    \A k \in 1..Len(log) :
        log[k].counter # "none" =>
            /\ log[k].counter = "skipped" <=> log[k].head = "found"
            /\ log[k].counter = "skipped" => ~log[k].downloaded /\ ~log[k].uploaded
            /\ (log[k].downloaded /\ log[k].uploaded) => log[k].counter = "organized"

(***************************************************************************)
(* C2, C4, C5, C6, C9: the transform stage                                 *)
(***************************************************************************)
\* the entries of the log for files that process_stm_file was called on
Handled == {k \in 1..Len(log) : log[k].shape = "ok"}

\* cafe_id, date and filename as line 248 unpacks them from the key of entry k
KeyParts(k) == Split(log[k].key, "/")

\* the destination tables of one (cafe_id, date)
TablesOf(cafe_id, date) ==
    {d \in DOMAIN bucket :
        /\ Len(d) > Len(s3_destination_key(cafe_id, date, <<>>))
        /\ SubSeq(d, 1, Len(s3_destination_key(cafe_id, date, <<>>)))
              = s3_destination_key(cafe_id, date, <<>>)}

\* the rows of a table other than the header
DataRows(table) == {i \in 1..Len(table) : table[i] # CSV_HEADERS}

\* C2 as stated: two receipts with different filenames and the same
\* (cafe_id, date), processed one after the other in a run, are rows of one
\* single destination table of that (cafe_id, date), which holds the rows of
\* both and exactly one header.
C2_AsStated ==
    \A i, j \in Handled :
        ( /\ i < j
          /\ log[i].run = log[j].run
          /\ log[i].counter = "processed" /\ log[j].counter = "processed"
          /\ KeyParts(i)[3] = KeyParts(j)[3]
          /\ KeyParts(i)[4] = KeyParts(j)[4]
          /\ KeyParts(i)[5] # KeyParts(j)[5] )
        => /\ Cardinality(TablesOf(KeyParts(i)[3], KeyParts(i)[4])) = 1
           /\ \A d \in TablesOf(KeyParts(i)[3], KeyParts(i)[4]) :
                 /\ Cardinality(DataRows(bucket[d]))
                       = log[i].rows_written + log[j].rows_written
                 /\ Len(bucket[d]) = Cardinality(DataRows(bucket[d])) + 1

\* C4 as stated: a receipt with n line items processed in two consecutive
\* runs leaves 2n data rows in its destination table.
C4_AsStated ==
    \A i, j \in Handled :
        ( /\ log[i].key = log[j].key
          /\ log[i].run = 1 /\ log[j].run = 2 /\ runs = 2
          /\ log[i].counter = "processed" /\ log[j].counter = "processed" )
        => Cardinality(DataRows(
              bucket[s3_destination_key(KeyParts(i)[3], KeyParts(i)[4], KeyParts(i)[5])]))
             = log[i].rows_written + log[j].rows_written

\* C5 as stated: a listed key of the layout organize_file writes (line 106 of
\* cluster.py, with the cafe_id and date it extracts from the filename) is
\* never counted as failed because of its shape.
C5_AsStated ==
    \A k \in 1..Len(log) :
        ( /\ extract_cafe_id_and_date(Basename(log[k].key)) # None
          /\ log[k].key = organized_s3_key(
                              extract_cafe_id_and_date(Basename(log[k].key))[1],
                              extract_cafe_id_and_date(Basename(log[k].key))[2],
                              Basename(log[k].key)) )
        => log[k].shape = "ok"

\* C6 as stated: an item whose download, parse and upload succeeded is counted
\* as processed and not as failed, whatever the unlinks of its temp files do.
C6_AsStated ==
    \A k \in Handled :
        /\ log[k].transferred => log[k].counter = "processed"
        /\ log[k].counter = "processed" => log[k].transferred

\* the keys of CSV files, in TEMP_DIR or in the bucket
IsCsv(k) == EndsWith(k, <<".","c","s","v">>)

\* the header is the first row of the table and no other row of it
HeaderOnce(table) ==
    table # <<>> => table[1] = CSV_HEADERS /\ \A i \in 2..Len(table) : table[i] # CSV_HEADERS

\* C9: in every table file, local or uploaded, the header row is the first row
\* and appears exactly once; an emission wrote the header if and only if the
\* table was zero-length (absent or empty) when it began.
C9_HeaderOnce ==
    /\ \A k \in DOMAIN local : IsCsv(k) => HeaderOnce(local[k])
    /\ \A d \in DOMAIN bucket : IsCsv(d) => bucket[d] # <<>> /\ HeaderOnce(bucket[d])
    /\ \A k \in Handled :
          log[k].size_before >= 0 => (log[k].header <=> log[k].size_before = 0)

\* a second emission into a table left behind non-empty: no header is written
\* and the uploaded table still has one
C9_Witness ==
    \E k \in Handled :
        /\ log[k].size_before > 0
        /\ ~log[k].header
        /\ log[k].transferred
        /\ Len(bucket[s3_destination_key(KeyParts(k)[3], KeyParts(k)[4], KeyParts(k)[5])])
              > log[k].size_before

\* an emission into a table that exists and is empty: the header is written
C9_WitnessEmpty ==
    \E k \in Handled :
        /\ log[k].size_before = 0
        /\ log[k].header
        /\ <<"a",".","c","s","v">> \in DOMAIN local
        /\ local[<<"a",".","c","s","v">>] # <<>>

(***************************************************************************)
(* C11                                                                     *)
(***************************************************************************)
\* the items of the current run that were counted as failed, from the log
FailedItems ==
    IF stage = "ingest"
    THEN {k \in 1..Len(log) : \E c \in 1..Len(log[k].counters) : log[k].counters[c] = "failed"}
    ELSE IF stage = "cluster"
    THEN {k \in 1..Len(log) : log[k].counter = "failed"}
    ELSE {k \in 1..Len(log) : log[k].run = runs /\ log[k].counter = "failed"}

\* C11: when the entry point of a stage (ingest, cluster, transform) has
\* exited, its code is 0 or 1, and it is 0 exactly when the run completed
\* (the stage function returned) with no item counted as failed; a run with a
\* failed item, and a run a fatal error aborted, exit with 1.
C11_ExitCode ==
    exit_code # None =>
        /\ exit_code[1] \in {0, 1}
        /\ exit_code[1] = 0 <=> (run = "returned" /\ FailedItems = {})

\* the cluster stage completed with one file organized and one failed: exit 1
C11_Witness ==
    /\ stage = "cluster"
    /\ run = "returned"
    /\ exit_code = Some(1)
    /\ stats.organized = 1
    /\ stats.failed = 1

\* a completed run of the transform stage without a failure: exit 0
C11_WitnessZero ==
    /\ stage = "transform"
    /\ run = "returned"
    /\ stats.processed = 2
    /\ exit_code = Some(0)

\* the ingest stage aborted by a fatal error: exit 1
C11_WitnessFatal ==
    /\ stage = "ingest"
    /\ run = "raised"
    /\ exit_code = Some(1)

(***************************************************************************)
(* C12                                                                     *)
(***************************************************************************)
\* fn holds n consecutive digits somewhere
HasDigitRun(fn, n) ==
    \E i \in 1..(Len(fn) - n + 1) : \A k \in 0..(n - 1) : fn[i + k] \in Digits

\* C12: for every filename without a run of 4 consecutive digits (those
\* without any digit included) no cafe id is found and
\* extract_cafe_id_and_date returns no result, whatever else the filename
\* holds; the result depends on the filename alone, so every call gives it.
C12_NoCafeId ==
    (Classified /\ ~HasDigitRun(filename, 4)) =>
        /\ cafe_id_match(filename) = None
        /\ extraction_result = None
        /\ extract_cafe_id_and_date(filename) = extraction_result

\* a filename with digits, "-" and "_", but no four digits in a row, classified
C12_Witness ==
    /\ Classified
    /\ ~HasDigitRun(filename, 4)
    /\ HasDigitRun(filename, 3)
    /\ \E i, j \in 1..Len(filename) : i < j /\ filename[i] = "-" /\ filename[j] = "_"
    /\ extraction_result = None

\* a filename without any digit, classified
C12_WitnessNoDigits ==
    /\ Classified
    /\ ~HasDigitRun(filename, 1)
    /\ Len(filename) > 4
    /\ extraction_result = None

(***************************************************************************)
(* C13                                                                     *)
(***************************************************************************)
\* the lines of the receipt text
ContentLines == Split(content, "\n")

IsItemLine(line) == line \in {CoffeeLine, TeaLine}

\* the three groups ITEM_PATTERN captures on an item line
ItemOnLine(line) ==
    IF line = CoffeeLine
    THEN << <<"1"," ","-"," ","C","o","f","f","e","e">>, <<"2",".","5","0">>, <<"9","%">> >>
    ELSE << <<"2","-"," "," ","T","e","a">>, <<"1",".","2">>, <<"2","1","%">> >>

\* the item lines of the receipt text, top to bottom
ItemLines == SelectSeq(ContentLines, IsItemLine)

\* the value of a field whose line is `line` and whose captured text is `text`
FieldFrom(line, text) ==
    IF \E k \in 1..Len(ContentLines) : ContentLines[k] = line THEN Some(text) ELSE None

\* C13: parse_stm_content returns a record for every text, the empty text
\* and texts no pattern matches included: order_no, time and total_amount
\* are None exactly when the text has no line their pattern matches, and
\* items holds the item matches in document order (empty when there is none).
C13_Total ==
    parsed_data # None =>
        /\ DOMAIN parsed_data[1] = {"order_no", "time", "total_amount", "items"}
        /\ parsed_data[1].order_no = FieldFrom(OrderLine, <<"1","2","3","4","5">>)
        /\ parsed_data[1].time = FieldFrom(TimeLine, TimeLine)
        /\ parsed_data[1].total_amount = FieldFrom(TotalLine, <<"2",".","5","0">>)
        /\ Len(parsed_data[1].items) = Len(ItemLines)
        /\ \A k \in 1..Len(ItemLines) : parsed_data[1].items[k] = ItemOnLine(ItemLines[k])

\* a text with two different item lines around a line no pattern matches,
\* and no order number, time or total: both items, in the order of the text
C13_Witness ==
    /\ parsed_data # None
    /\ content = JoinLines(<<TeaLine, ThanksLine, CoffeeLine>>)
    /\ parsed_data[1].order_no = None
    /\ parsed_data[1].time = None
    /\ parsed_data[1].total_amount = None
    /\ Len(parsed_data[1].items) = 2
    /\ parsed_data[1].items[1][1] = <<"2","-"," "," ","T","e","a">>

\* the empty text parsed: every field None, no item
C13_WitnessEmpty ==
    /\ parsed_data # None
    /\ content = <<>>
    /\ parsed_data[1] = [order_no |-> None, time |-> None, total_amount |-> None, items |-> <<>>]

\* a text no pattern matches, parsed
C13_WitnessNoMatch ==
    /\ parsed_data # None
    /\ content = JoinLines(<<ThanksLine, ThanksLine>>)
    /\ parsed_data[1].items = <<>>
    /\ parsed_data[1].order_no = None

(***************************************************************************)
(* C14                                                                     *)
(***************************************************************************)
\* the counters of the cluster and transform stages partition the files counted
StageCountersPartition ==
    /\ stage = "cluster" => stats.total_files = stats.organized + stats.skipped + stats.failed
    /\ stage = "transform" => stats.total_files = stats.processed + stats.failed

\* C14 as stated: at the end of every completed run the outcome counters
\* partition the items considered: total_files = organized + skipped + failed
\* in the cluster stage, total_files = processed + failed in the transform
\* stage, and successful_uploads + failed_uploads = the number of .stm
\* entries of the archive in the ingest stage, whatever transfers and
\* cleanups fail.
C14_AsStated ==
    run = "returned" =>
        /\ StageCountersPartition
        /\ stage = "ingest" =>
              stats.successful_uploads + stats.failed_uploads = Len(stm_files(listing))

\* C14 for the cluster and transform stages alone: there the counters of a
\* completed run do partition the files counted.
C14_ClusterTransform == run = "returned" => StageCountersPartition

(***************************************************************************)
(* C15                                                                     *)
(***************************************************************************)
\* the leftmost run of 8 digits of fn (fn holds one)
FirstDigitRun8(fn) ==
    LET i == CHOOSE i \in 1..(Len(fn) - 7) :
                /\ \A k \in 0..7 : fn[i + k] \in Digits
                /\ \A j \in 1..(i - 1) : \E k \in 0..7 : fn[j + k] \notin Digits
    IN  SubSeq(fn, i, i + 7)

\* C15: the structural date fallback (split on "_", then on "-", the part at
\* index 2) never gives a successful classification: for every filename
\* without a run of 8 consecutive digits extract_cafe_id_and_date returns no
\* result, so a returned date is always the leftmost run of 8 digits of the
\* filename.
C15_FallbackNeverSucceeds ==
    Classified =>
        /\ ~HasDigitRun(filename, 8) => extraction_result = None
        /\ extraction_result # None =>
              /\ HasDigitRun(filename, 8)
              /\ extraction_result[2] = FirstDigitRun8(filename)

\* a filename with a cafe id and no run of 8 digits whose first "_" segment
\* has a third "-" part made of digits: the fallback yields that part as the
\* date candidate, the validation rejects it and no result is returned
C15_Witness ==
    /\ Classified
    /\ ~HasDigitRun(filename, 8)
    /\ cafe_id_match(filename) # None
    /\ date_candidate(filename) # None
    /\ Len(date_candidate(filename)[1]) >= 1
    /\ \A k \in 1..Len(date_candidate(filename)[1]) : date_candidate(filename)[1][k] \in Digits
    /\ extraction_result = None

\* a filename with two runs of 8 digits, classified: the date is the first run
C15_WitnessFirstRun ==
    /\ Classified
    /\ extraction_result # None
    /\ extraction_result[2] = <<"1","9","9","9","0","1","0","1">>
    /\ \E i \in 9..(Len(filename) - 7) :
          SubSeq(filename, i, i + 7) = <<"2","0","2","4","1","1","0","2">>

====
